---------------------------- MODULE Spec2Model ----------------------------
(***************************************************************************)
(* Model of src/server/catchthesquares.py: the Pygame game loop (game),    *)
(* the paddle (Paddle.update), the falling squares, the control queue fed  *)
(* by the WebSocket handlers, game_state_lock, the client registry and the *)
(* broadcast task (send_game_state_to_clients).                            *)
(***************************************************************************)
EXTENDS Integers, Sequences, FiniteSets, TLC

\* ------------------------------------------------------------ constants
SCREEN_WIDTH == 800
SCREEN_HEIGHT == 600
PADDLE_WIDTH == 100
PADDLE_HEIGHT == 20
SQUARE_SIZE == 30
FALL_SPEED == 3
INITIAL_LIVES == 3
\* Paddle.speed
PaddleSpeed == 8
\* Paddle.rect.bottom = SCREEN_HEIGHT - 10
PaddleBottomGap == 10

\* ------------------------------------------------------------ bounds
\* SPAWN_SQUARE events delivered by one pygame.event.get()
MaxBurst == 2
\* control messages received in one run of the paddle specification
MaxPushes == 3
\* messages the handlers take in one run of the network specification
MaxMessages == 2
\* tick periods counted while one gather is waiting for its sends
MaxLate == 2

\* where a new square appears: x a value of random.randrange(0, SCREEN_WIDTH -
\* SQUARE_SIZE), y a value of random.randrange(-100, -SQUARE_SIZE)
SpawnPoints == {[x |-> 0, y |-> -31], [x |-> 0, y |-> -34], [x |-> 385, y |-> -31]}
\* 'direction' values a control message carries
Directions == {"left", "right", "up"}

VARIABLES
    game_state,          \* the shared dict: paddle_x, squares, score, lives, game_over
    control_queue,       \* the list the handlers append to
    paddle_rect_x,       \* paddle.rect.x of the live Paddle sprite
    falling_squares,     \* falling_squares_pygame_group, in insertion order
    square_id_counter,   \* local of game()
    pc,                  \* where the game thread is in its loop
    game_state_lock,     \* holder of the threading.Lock: "free", "game" or "ws"
    ws_pc,               \* where the coroutine running on the event loop is
    ws_direction,        \* the direction that handler is about to append
    pushed,              \* history: every direction appended, in order
    applied,             \* history: every control popped by Paddle.update, in order
    drained,             \* history: rect.x before the drain of the Paddle.update
                         \* under way, and the batch that drain popped
    connected_clients,   \* the set of registered websockets
    handler,             \* per connection: "new" (not accepted yet), "open"
                         \* (websocket_handler running) or "closed" (it returned)
    last_message,        \* history: the last message a handler took, and whose
    message_count,       \* history: how many messages the handlers took
    bc_pc,               \* send_game_state_to_clients: "sleep", "gather" or "dead"
    snapshot,            \* <<current_state_for_client>> while it is being sent
    sends,               \* the client.send of the running gather, per client
    late                 \* history: tick periods gone by since that gather began

\* what the network side adds to the game's state
netvars == <<connected_clients, handler, last_message, message_count, bc_pc,
             snapshot, sends, late>>

vars == <<game_state, control_queue, paddle_rect_x, falling_squares,
          square_id_counter, pc, game_state_lock, ws_pc, ws_direction,
          pushed, applied, drained, connected_clients, handler, last_message,
          message_count, bc_pc, snapshot, sends, late>>

\* ------------------------------------------------------------ paddle
\* rect.x once rect.centerx = SCREEN_WIDTH // 2 (also game_state['paddle_x'] at import)
PaddleInitX == SCREEN_WIDTH \div 2 - PADDLE_WIDTH \div 2

\* rect.top once rect.bottom = SCREEN_HEIGHT - 10
PaddleTop == SCREEN_HEIGHT - PaddleBottomGap - PADDLE_HEIGHT

\* keyboard part of Paddle.update: K_LEFT and K_RIGHT each move by speed
KeyMove(x, keys) ==
    LET a == IF "left" \in keys THEN x - PaddleSpeed ELSE x
    IN  IF "right" \in keys THEN a + PaddleSpeed ELSE a

\* one control popped from the queue
ApplyControl(x, control) ==
    IF control = "left" THEN x - PaddleSpeed
    ELSE IF control = "right" THEN x + PaddleSpeed
    ELSE x

\* while control_queue: control = control_queue.pop(0); ...
RECURSIVE DrainQueue(_, _, _)
DrainQueue(queue, x, log) ==
    IF queue = <<>>
    THEN [x |-> x, queue |-> queue, log |-> log]
    ELSE DrainQueue(Tail(queue), ApplyControl(x, Head(queue)), Append(log, Head(queue)))

\* ClampToScreen without its left bound
ClampRightOnly(x) ==
    IF x + PADDLE_WIDTH > SCREEN_WIDTH THEN SCREEN_WIDTH - PADDLE_WIDTH ELSE x

\* if rect.left < 0: rect.left = 0; if rect.right > SCREEN_WIDTH: rect.right = SCREEN_WIDTH
ClampToScreen(x) ==
    LET a == IF x < 0 THEN 0 ELSE x
    IN  IF a + PADDLE_WIDTH > SCREEN_WIDTH THEN SCREEN_WIDTH - PADDLE_WIDTH ELSE a

\* ------------------------------------------------------------ squares
DigitChar == <<"0", "1", "2", "3", "4", "5", "6", "7", "8", "9">>

\* str(n) for n >= 0, as its sequence of characters
RECURSIVE IntToStr(_)
IntToStr(n) ==
    IF n < 10 THEN <<DigitChar[n + 1]>>
    ELSE IntToStr(n \div 10) \o <<DigitChar[(n % 10) + 1]>>

\* f"sq_{square_id_counter}"
SquareId(n) == <<"s", "q", "_">> \o IntToStr(n)

\* square_id_counter += 1
NextCounter(counter) == counter + 1

\* one SPAWN_SQUARE event while not game_over: a FallingSquare at (ev.x, ev.y)
RECURSIVE SpawnSquares(_, _, _)
SpawnSquares(group, counter, evs) ==
    IF evs = <<>>
    THEN [group |-> group, counter |-> counter]
    ELSE LET c == NextCounter(counter)
             sq == [id |-> SquareId(c), x |-> Head(evs).x, y |-> Head(evs).y]
         IN  SpawnSquares(Append(group, sq), c, Tail(evs))

\* "and not game_state['game_over']" on a SPAWN_SQUARE event
SpawnAllowed(gs) == ~gs.game_over

\* "if not game_state['game_over']" under the lock
TickAllowed(gs) == ~gs.game_over

\* ------------------------------------------------------------ network
\* the websockets the server accepts in one run
Clients == {"c1", "c2"}

\* text frames a client sends: a control message, {"type": "restart"}, JSON
\* that is not an object (a list), and text that is not JSON
Messages ==
    {[json |-> "object", type |-> "control", direction |-> "left"],
     [json |-> "object", type |-> "restart", direction |-> "none"],
     [json |-> "array", type |-> "none", direction |-> "none"],
     [json |-> "invalid", type |-> "none", direction |-> "none"]}

\* last_message before any message
NoMessage ==
    [client |-> "none",
     message |-> [json |-> "none", type |-> "none", direction |-> "none"]]

\* sends when no gather is running
NoSends == [c \in Clients |-> "none"]

\* HandleMessage that takes every JSON object for a control message
HandleAnyType(message) ==
    IF message.json # "object" THEN "raise" ELSE "append"

\* the body of "async for message in websocket": json.loads raises on text that
\* is not JSON, data.get raises on a value that is not a dict, a 'control'
\* message has its direction appended, any other type falls through
HandleMessage(message) ==
    IF message.json = "invalid" THEN "raise"
    ELSE IF message.json # "object" THEN "raise"
    ELSE IF message.type = "control" THEN "append"
    ELSE "ignore"

\* connected_clients.add(websocket)
Register(clients, websocket) == clients \cup {websocket}

\* unregister that empties the registry
UnregisterAll(clients, websocket) == [raised |-> FALSE, clients |-> {}]

\* connected_clients.remove(websocket): KeyError when it is not a member
Unregister(clients, websocket) ==
    IF websocket \in clients
    THEN [raised |-> FALSE, clients |-> clients \ {websocket}]
    ELSE [raised |-> TRUE, clients |-> clients]

\* an append that puts the direction in twice
QueueAppendTwice(queue, direction) == Append(Append(queue, direction), direction)

\* control_queue.append(direction)
QueueAppend(queue, direction) == Append(queue, direction)

\* a with block that keeps the lock
KeepLock(holder) == holder

\* the end of a "with game_state_lock" block
ReleaseLock(holder) == "free"

\* lines 157-164: game_state['squares'] holds the dicts game() stored, so
\* sq.rect raises AttributeError as soon as there is one; with none the
\* message is the five fields
BuildSnapshot(gs) ==
    IF gs.squares # <<>>
    THEN [raised |-> TRUE, message |-> <<>>]
    ELSE [raised |-> FALSE,
          message |-> <<[paddle_x |-> gs.paddle_x, squares |-> <<>>,
                         score |-> gs.score, lives |-> gs.lives,
                         game_over |-> gs.game_over]>>]

\* lines 168-169: with nobody registered the loop goes back to its sleep,
\* otherwise one client.send per registered client is handed to the gather
StartGather(message, clients) ==
    IF clients = {}
    THEN [bc_pc |-> "sleep", snapshot |-> <<>>, sends |-> NoSends]
    ELSE [bc_pc |-> "gather", snapshot |-> message,
          sends |-> [c \in Clients |-> IF c \in clients THEN "pending"
                                       ELSE "none"]]

\* ------------------------------------------------------------ state machine
\* drained while no Paddle.update is between its drain and its publication
NoDrain == [x |-> 0, batch |-> <<>>, set |-> FALSE]

\* the program once game() has built its groups and its Paddle (lines 221-231)
Init ==
    /\ game_state = [paddle_x |-> PaddleInitX, squares |-> <<>>, score |-> 0,
                     lives |-> INITIAL_LIVES, game_over |-> FALSE]
    /\ control_queue = <<>>
    /\ paddle_rect_x = PaddleInitX
    /\ falling_squares = <<>>
    /\ square_id_counter = 0
    /\ pc = "loop"
    /\ game_state_lock = "free"
    /\ ws_pc = "recv"
    /\ ws_direction = "none"
    /\ pushed = <<>>
    /\ applied = <<>>
    /\ drained = NoDrain
    /\ connected_clients = {}
    /\ handler = [c \in Clients |-> "new"]
    /\ last_message = NoMessage
    /\ message_count = 0
    /\ bc_pc = "sleep"
    /\ snapshot = <<>>
    /\ sends = NoSends
    /\ late = 0

EventBatches == UNION {[1..n -> SpawnPoints] : n \in 0..MaxBurst}

KeySets == SUBSET {"left", "right"}

\* ------------------------------------------------------------ lock level
\* for event in pygame.event.get(): ... (lines 235-243), then on to line 246
LockEvents(evs) ==
    /\ pc = "loop"
    /\ LET sp == IF SpawnAllowed(game_state)
                 THEN SpawnSquares(falling_squares, square_id_counter, evs)
                 ELSE [group |-> falling_squares, counter |-> square_id_counter]
       IN  /\ falling_squares' = sp.group
           /\ square_id_counter' = sp.counter
    /\ pc' = "acquire"
    /\ UNCHANGED <<game_state, control_queue, paddle_rect_x, game_state_lock,
                   ws_pc, ws_direction, pushed, applied, drained>>
    /\ UNCHANGED netvars

\* threading.Lock.acquire by the thread that runs game() and Paddle.update: at
\* line 246 of game(), at line 72 and at line 88 of Paddle.update. The lock is
\* not re-entrant: the holder waits too.
GameAcquire ==
    /\ pc \in {"acquire", "paddle_acquire", "publish_acquire"}
    /\ game_state_lock = "free"
    /\ game_state_lock' = "game"
    /\ pc' = IF pc = "acquire" THEN "tick"
             ELSE IF pc = "paddle_acquire" THEN "drain"
             ELSE "publish"
    /\ UNCHANGED <<game_state, control_queue, paddle_rect_x, falling_squares,
                   square_id_counter, ws_pc, ws_direction, pushed, applied, drained>>
    /\ UNCHANGED netvars

\* lines 247-248 and 64-69: game_over is false, all_sprites.update() enters
\* Paddle.update (the paddle is the first sprite of the group), whose keyboard
\* part runs before its "with game_state_lock"
PaddleKeys(keys) ==
    /\ pc = "tick"
    /\ game_state_lock = "game"
    /\ TickAllowed(game_state)
    /\ paddle_rect_x' = KeyMove(paddle_rect_x, keys)
    /\ pc' = "paddle_acquire"
    /\ UNCHANGED <<game_state, control_queue, falling_squares, square_id_counter,
                   game_state_lock, ws_pc, ws_direction, pushed, applied, drained>>
    /\ UNCHANGED netvars

\* websocket_handler, lines 128-131: a control message arrives
WsReceive(direction) ==
    /\ ws_pc = "recv"
    /\ Len(pushed) < MaxPushes
    /\ ws_direction' = direction
    /\ ws_pc' = "acquire"
    /\ UNCHANGED <<game_state, control_queue, paddle_rect_x, falling_squares,
                   square_id_counter, pc, game_state_lock, pushed, applied, drained>>
    /\ UNCHANGED netvars

\* line 133: the handler takes the lock, blocking the event loop's thread
WsAcquire ==
    /\ ws_pc = "acquire"
    /\ game_state_lock = "free"
    /\ game_state_lock' = "ws"
    /\ ws_pc' = "append"
    /\ UNCHANGED <<game_state, control_queue, paddle_rect_x, falling_squares,
                   square_id_counter, pc, ws_direction, pushed, applied, drained>>
    /\ UNCHANGED netvars

\* line 134 and the release at the end of the with block
WsAppend ==
    /\ ws_pc = "append"
    /\ game_state_lock = "ws"
    /\ control_queue' = QueueAppend(control_queue, ws_direction)
    /\ pushed' = Append(pushed, ws_direction)
    /\ game_state_lock' = ReleaseLock(game_state_lock)
    /\ ws_pc' = "recv"
    /\ ws_direction' = "none"
    /\ UNCHANGED <<game_state, paddle_rect_x, falling_squares, square_id_counter,
                   pc, applied, drained>>
    /\ UNCHANGED netvars

LockGameEvents == \E evs \in EventBatches : LockEvents(evs)

LockPaddleKeys == \E keys \in KeySets : PaddleKeys(keys)

LockWsReceive == \E d \in Directions : WsReceive(d)

NextLock ==
    LockGameEvents \/ GameAcquire \/ LockPaddleKeys \/ LockWsReceive \/ WsAcquire
        \/ WsAppend

\* The game thread and the event loop's thread step by step around
\* game_state_lock, a non-re-entrant threading.Lock. The game thread takes the
\* lock at line 246 and asks for it again at line 72: it gets no further.
SpecLock == Init /\ [][NextLock]_vars

\* ------------------------------------------------------------ paddle runs
\* Paddle.update() entered by a caller that does not hold game_state_lock:
\* lines 64-69, the keyboard part, up to the "with" of line 72. The method is
\* run here on its own: its one call site, line 248, is inside the with block
\* of line 246 (PaddleKeys), where the call waits at line 72.
CallUpdate(keys) ==
    /\ pc \in {"loop", "updated"}
    /\ paddle_rect_x' = KeyMove(paddle_rect_x, keys)
    /\ pc' = "paddle_acquire"
    /\ UNCHANGED <<game_state, control_queue, falling_squares, square_id_counter,
                   game_state_lock, ws_pc, ws_direction, pushed, applied, drained>>
    /\ UNCHANGED netvars

\* lines 74-79 and the release at the end of the with block of line 72
Drain ==
    /\ pc = "drain"
    /\ game_state_lock = "game"
    /\ LET d == DrainQueue(control_queue, paddle_rect_x, <<>>)
       IN  /\ paddle_rect_x' = d.x
           /\ control_queue' = d.queue
           /\ applied' = applied \o d.log
    /\ drained' = [x |-> paddle_rect_x, batch |-> control_queue, set |-> TRUE]
    /\ game_state_lock' = ReleaseLock(game_state_lock)
    /\ pc' = "clamp"
    /\ UNCHANGED <<game_state, falling_squares, square_id_counter, ws_pc,
                   ws_direction, pushed>>
    /\ UNCHANGED netvars

\* lines 82-85, with no lock held, up to the "with" of line 88
Clamp ==
    /\ pc = "clamp"
    /\ paddle_rect_x' = ClampToScreen(paddle_rect_x)
    /\ pc' = "publish_acquire"
    /\ UNCHANGED <<game_state, control_queue, falling_squares, square_id_counter,
                   game_state_lock, ws_pc, ws_direction, pushed, applied, drained>>
    /\ UNCHANGED netvars

\* line 89 and the release at the end of the with block of line 88: the call
\* returns
Publish ==
    /\ pc = "publish"
    /\ game_state_lock = "game"
    /\ game_state' = [game_state EXCEPT !.paddle_x = paddle_rect_x]
    /\ drained' = NoDrain
    /\ game_state_lock' = ReleaseLock(game_state_lock)
    /\ pc' = "updated"
    /\ UNCHANGED <<control_queue, paddle_rect_x, falling_squares,
                   square_id_counter, ws_pc, ws_direction, pushed, applied>>
    /\ UNCHANGED netvars

PaddleCall == \E keys \in KeySets : CallUpdate(keys)

NextPaddle ==
    PaddleCall \/ GameAcquire \/ Drain \/ Clamp \/ Publish \/ LockWsReceive
        \/ WsAcquire \/ WsAppend

\* Paddle.update as a method: called again and again by a thread that does not
\* hold the lock, step by step around its two "with game_state_lock" blocks,
\* with a handler appending in between. (game() calls it with the lock held,
\* where it waits at line 72: SpecLock.)
SpecPaddle == Init /\ [][NextPaddle]_vars

\* ------------------------------------------------------------ network level
\* a connection is accepted: websocket_handler starts and registers it
Accept(c) ==
    /\ handler[c] = "new"
    /\ ws_pc = "recv"
    /\ handler' = [handler EXCEPT ![c] = "open"]
    /\ connected_clients' = Register(connected_clients, c)
    /\ UNCHANGED <<game_state, control_queue, paddle_rect_x, falling_squares,
                   square_id_counter, pc, game_state_lock, ws_pc, ws_direction,
                   pushed, applied, drained, last_message, message_count, bc_pc,
                   snapshot, sends, late>>

\* "async for message in websocket" hands the handler of c one message. An
\* exception leaves the loop for "except Exception" and the finally block,
\* which unregisters; a control message goes on to line 133.
Receive(c, message) ==
    /\ handler[c] = "open"
    /\ ws_pc = "recv"
    /\ message_count < MaxMessages
    /\ last_message' = [client |-> c, message |-> message]
    /\ message_count' = message_count + 1
    /\ LET outcome == HandleMessage(message)
       IN  /\ handler' = IF outcome = "raise" THEN [handler EXCEPT ![c] = "closed"]
                         ELSE handler
           /\ connected_clients' = IF outcome = "raise"
                                   THEN Unregister(connected_clients, c).clients
                                   ELSE connected_clients
           /\ ws_pc' = IF outcome = "append" THEN "acquire" ELSE ws_pc
           /\ ws_direction' = IF outcome = "append" THEN message.direction
                              ELSE ws_direction
    /\ UNCHANGED <<game_state, control_queue, paddle_rect_x, falling_squares,
                   square_id_counter, pc, game_state_lock, pushed, applied, drained,
                   bc_pc, snapshot, sends, late>>

\* the connection of c closes: the loop ends (or ConnectionClosed is raised)
\* and the finally block unregisters
Close(c) ==
    /\ handler[c] = "open"
    /\ ws_pc = "recv"
    /\ handler' = [handler EXCEPT ![c] = "closed"]
    /\ connected_clients' = Unregister(connected_clients, c).clients
    /\ UNCHANGED <<game_state, control_queue, paddle_rect_x, falling_squares,
                   square_id_counter, pc, game_state_lock, ws_pc, ws_direction,
                   pushed, applied, drained, last_message, message_count, bc_pc,
                   snapshot, sends, late>>

\* lines 151-154: the sleep is over, somebody is registered, on to the lock
BcWake ==
    /\ bc_pc = "sleep"
    /\ ws_pc = "recv"
    /\ connected_clients # {}
    /\ ws_pc' = "bc_acquire"
    /\ UNCHANGED <<game_state, control_queue, paddle_rect_x, falling_squares,
                   square_id_counter, pc, game_state_lock, ws_direction, pushed,
                   applied, drained>>
    /\ UNCHANGED netvars

\* line 154: the broadcast task takes the lock, blocking the event loop's thread
BcAcquire ==
    /\ ws_pc = "bc_acquire"
    /\ game_state_lock = "free"
    /\ game_state_lock' = "ws"
    /\ ws_pc' = "bc_build"
    /\ UNCHANGED <<game_state, control_queue, paddle_rect_x, falling_squares,
                   square_id_counter, pc, ws_direction, pushed, applied, drained>>
    /\ UNCHANGED netvars

\* lines 157-164 and the release at the end of the with block of line 154:
\* the snapshot is built under the lock; an exception leaves the with block
\* (the lock is released) and ends the task, nothing catches it
BcBuild ==
    /\ ws_pc = "bc_build"
    /\ game_state_lock = "ws"
    /\ LET b == BuildSnapshot(game_state)
       IN  /\ bc_pc' = IF b.raised THEN "dead" ELSE bc_pc
           /\ snapshot' = b.message
           /\ ws_pc' = IF b.raised THEN "recv" ELSE "bc_send"
    /\ game_state_lock' = ReleaseLock(game_state_lock)
    /\ UNCHANGED <<game_state, control_queue, paddle_rect_x, falling_squares,
                   square_id_counter, pc, ws_direction, pushed, applied, drained,
                   connected_clients, handler, last_message, message_count,
                   sends, late>>

\* lines 165-169, with no lock held: json.dumps, the test of line 168, and
\* the sends handed to asyncio.gather
BcGather ==
    /\ ws_pc = "bc_send"
    /\ LET g == StartGather(snapshot, connected_clients)
       IN  /\ bc_pc' = g.bc_pc
           /\ snapshot' = g.snapshot
           /\ sends' = g.sends
    /\ late' = 0
    /\ ws_pc' = "recv"
    /\ UNCHANGED <<game_state, control_queue, paddle_rect_x, falling_squares,
                   square_id_counter, pc, game_state_lock, ws_direction, pushed,
                   applied, drained, connected_clients, handler, last_message,
                   message_count>>

\* one client.send of the gather ends: it returned, or it raised (gather keeps
\* the exception as a result). Whether the handler of c is still running
\* plays no part: no line of the program closes a connection.
SendDone(c, outcome) ==
    /\ bc_pc = "gather"
    /\ ws_pc = "recv"
    /\ sends[c] = "pending"
    /\ sends' = [sends EXCEPT ![c] = outcome]
    /\ UNCHANGED <<game_state, control_queue, paddle_rect_x, falling_squares,
                   square_id_counter, pc, game_state_lock, ws_pc, ws_direction,
                   pushed, applied, drained, connected_clients, handler,
                   last_message, message_count, bc_pc, snapshot, late>>

\* "await asyncio.gather(...)" returns once every send has ended; the loop
\* goes back to its sleep
GatherEnd ==
    /\ bc_pc = "gather"
    /\ ws_pc = "recv"
    /\ \A c \in Clients : sends[c] # "pending"
    /\ bc_pc' = "sleep"
    /\ snapshot' = <<>>
    /\ sends' = NoSends
    /\ late' = 0
    /\ UNCHANGED <<game_state, control_queue, paddle_rect_x, falling_squares,
                   square_id_counter, pc, game_state_lock, ws_pc, ws_direction,
                   pushed, applied, drained, connected_clients, handler,
                   last_message, message_count>>

\* 1/FPS seconds go by while the gather is still waiting
TickPeriod ==
    /\ bc_pc = "gather"
    /\ late < MaxLate
    /\ late' = late + 1
    /\ UNCHANGED <<game_state, control_queue, paddle_rect_x, falling_squares,
                   square_id_counter, pc, game_state_lock, ws_pc, ws_direction,
                   pushed, applied, drained, connected_clients, handler,
                   last_message, message_count, bc_pc, snapshot, sends>>

NetAccept == \E c \in Clients : Accept(c)

NetReceive == \E c \in Clients, message \in Messages : Receive(c, message)

NetClose == \E c \in Clients : Close(c)

NetSendDone == \E c \in Clients, outcome \in {"done", "failed"} : SendDone(c, outcome)

\* the game thread with no spawn event in its queue
NetGameEvents == LockEvents(<<>>)

NextNet ==
    NetAccept \/ NetReceive \/ NetClose \/ WsAcquire \/ WsAppend \/ BcWake
        \/ BcAcquire \/ BcBuild \/ BcGather \/ NetSendDone \/ GatherEnd \/ TickPeriod
        \/ NetGameEvents \/ GameAcquire \/ LockPaddleKeys

\* The event loop's thread (the handlers and the broadcast task, one coroutine
\* at a time) and the game thread, step by step around game_state_lock.
SpecNet == Init /\ [][NextNet]_vars

\* ------------------------------------------------------------ claims
\* C1: every tick completes: the game thread is never left waiting for
\* game_state_lock while it is itself the holder (the lock is not re-entrant,
\* so that wait never ends and the tick never reaches its end).
C1_TickNeverBlocks == ~(pc = "paddle_acquire" /\ game_state_lock = "game")

\* C3: the published paddle_x is always within [0, SCREEN_WIDTH - PADDLE_WIDTH],
\* whatever the commands and keys and however many are applied in one tick.
C3_PaddleInBounds ==
    /\ 0 <= game_state.paddle_x
    /\ game_state.paddle_x <= SCREEN_WIDTH - PADDLE_WIDTH

\* C3 witness: the paddle stands at the left edge after calls with K_LEFT down
\* and three queued "left" commands ran it into the edge.
C3_Witness ==
    /\ pc = "updated"
    /\ game_state.paddle_x = 0
    /\ applied = <<"left", "left", "left">>
    /\ control_queue = <<>>

\* the drain of a Paddle.update, and its publication
IsDrain == pc = "drain" /\ pc' = "clamp"

IsPublish == pc = "publish" /\ pc' = "updated"

\* C10: whatever the interleaving of appends and drains, every command
\* appended is applied exactly once and in the order of the appends: what was
\* appended is what was applied followed by what is queued (nothing lost,
\* doubled or reordered), a drain applies all that is queued and leaves the
\* queue empty, and no command is left in the queue with the game thread
\* waiting at line 72 for the lock it holds itself (a wait that never ends, so
\* the drain of line 74 never takes it).
C10_QueueFifo ==
    /\ [](pushed = applied \o control_queue)
    /\ [][IsDrain =>
             /\ control_queue' = <<>>
             /\ applied' = applied \o control_queue]_vars
    /\ [](~(/\ control_queue # <<>>
            /\ pc = "paddle_acquire"
            /\ game_state_lock = "game"))

\* a handler takes a message in this step
TakesMessage == message_count' # message_count

\* C11: a message that fails to decode (text that is not JSON, or JSON that is
\* not an object) is discarded alone: the step that takes it leaves every
\* handler running and the registry as it was.
C11_BadMessageDiscarded ==
    [][(TakesMessage /\ last_message'.message.json # "object")
          => (handler' = handler /\ connected_clients' = connected_clients)]_vars

\* C12: a send that fails or stalls for one client neither fails nor delays the
\* others' and does not hold back the next cycle: a send still pending one tick
\* period after the gather began is abandoned, so no gather is found waiting
\* for a send when a second period has gone by.
C12_StalledSendAbandoned ==
    (bc_pc = "gather" /\ \E c \in Clients : sends[c] = "pending") => late <= 1

\* C13: the broadcast task never stops, whatever the game state is (squares
\* empty or not) and whatever the clients do: it is never ended by an
\* exception, and never left waiting at line 154 for a lock whose holder, the
\* game thread, is itself waiting for that lock.
C13_BroadcastNeverStops ==
    /\ bc_pc # "dead"
    /\ ~(ws_pc = "bc_acquire" /\ game_state_lock = "game" /\ pc = "paddle_acquire")

\* the connections whose websocket_handler is running
Running == {c \in Clients : handler[c] = "open"}

\* handler and registry of every connection but c stay as they are
OthersUntouched(c) ==
    \A d \in Clients \ {c} :
        /\ handler'[d] = handler[d]
        /\ (d \in connected_clients') = (d \in connected_clients)

\* C14: the registry is always exactly the set of connections whose handler is
\* running; a handler that starts adds its connection, which was not a member;
\* a handler that ends (close or error) removes its connection, which was a
\* member (remove finds it); neither touches another connection.
C14_RegistryIsRunningHandlers ==
    /\ [](connected_clients = Running)
    /\ [](\A c \in Running : ~Unregister(connected_clients, c).raised)
    /\ [][\A c \in Clients :
            /\ (handler[c] = "new" /\ handler'[c] = "open")
                  => /\ c \notin connected_clients
                     /\ c \in connected_clients'
                     /\ OthersUntouched(c)
            /\ (handler[c] = "open" /\ handler'[c] = "closed")
                  => /\ c \in connected_clients
                     /\ c \notin connected_clients'
                     /\ OthersUntouched(c)
            /\ handler[c] = "closed" => handler'[c] = "closed"]_vars

\* one handler ended on an exception while the other connection stays registered
C14_Witness ==
    /\ handler["c1"] = "closed"
    /\ last_message.client = "c1"
    /\ last_message.message.json = "invalid"
    /\ handler["c2"] = "open"
    /\ connected_clients = {"c2"}

\* C16: a message that decodes to an object whose type is not "control"
\* ({"type": "restart"} among them) is ignored: the step that takes it changes
\* neither the queue, nor the game state, nor the registry; the handler stays
\* open and at its receive, takes no lock and starts no send.
C16_OtherTypeIgnored ==
    [][(/\ TakesMessage
        /\ last_message'.message.json = "object"
        /\ last_message'.message.type # "control")
          => UNCHANGED <<control_queue, pushed, game_state, connected_clients,
                         handler, ws_pc, ws_direction, game_state_lock, bc_pc,
                         snapshot, sends>>]_vars

\* a restart message was taken and its connection is still open and registered
C16_Witness ==
    /\ message_count > 0
    /\ last_message.message.type = "restart"
    /\ handler[last_message.client] = "open"
    /\ last_message.client \in connected_clients
    /\ control_queue = <<>>

RECURSIVE ClampFold(_, _)
\* clamp(x - 8) or clamp(x + 8) for each command in turn, each starting from
\* the clamped position the one before left
ClampFold(x, queue) ==
    IF queue = <<>> THEN x
    ELSE ClampFold(ClampToScreen(ApplyControl(x, Head(queue))), Tail(queue))

\* C17: within one tick's batch paddle_x is clamped after each command:
\* Paddle.update publishes the clamped fold of clamp(x +/- 8) over the commands
\* its drain popped, in order, from where the keyboard part left rect.x.
C17_ClampedAfterEachCommand ==
    [][IsPublish =>
          game_state'.paddle_x =
              ClampToScreen(ClampFold(drained.x, drained.batch))]_vars

\* a step of a handler or of the broadcast task
NetworkStep == netvars' # netvars \/ pushed' # pushed \/ ws_pc' # ws_pc

\* a step of the broadcast task: it wakes from its sleep, takes the lock,
\* builds the snapshot, hands it to the gather, or its gather moves on
BroadcastStep ==
    \/ bc_pc' # bc_pc \/ snapshot' # snapshot \/ sends' # sends
    \/ /\ ws_pc' # ws_pc
       /\ ws_pc \in {"bc_acquire", "bc_build", "bc_send"} \/ ws_pc' = "bc_acquire"

\* C19: only the game thread changes game_state: every step of a handler or
\* of the broadcast task leaves its five fields as they are. Such a step does
\* to the queue nothing but append one direction, and to the registry nothing
\* but add or remove the connection whose handler starts or ends; a broadcast
\* step touches neither.
C19_OnlyGameWritesState ==
    [][NetworkStep =>
          /\ game_state' = game_state
          /\ \/ control_queue' = control_queue
             \/ \E d \in Directions : control_queue' = Append(control_queue, d)
          /\ \A c \in Clients :
                 ((c \in connected_clients') # (c \in connected_clients))
                     => handler'[c] # handler[c]
          /\ BroadcastStep => UNCHANGED <<control_queue, connected_clients>>]_vars

\* the game thread is in its tick, a handler has appended a command, and the
\* broadcast task has built a snapshot that is being sent
C19_Witness ==
    /\ pc = "paddle_acquire"
    /\ pushed # <<>>
    /\ connected_clients # {}
    /\ snapshot # <<>>

\* a client.send of the running gather ends in this step
SendEnds == \E c \in Clients : sends[c] = "pending" /\ sends'[c] # "pending"

\* the sends of a gather start in this step
SendsStart == \E c \in Clients : sends[c] # "pending" /\ sends'[c] = "pending"

\* C20: the event loop's thread holds game_state_lock only inside the queue
\* append and the snapshot building: never while it waits at a receive or a
\* send. A step that takes a message, starts the sends or ends a send starts
\* and ends with the lock not held by that thread.
C20_NoLockAcrossNetwork ==
    /\ [](game_state_lock = "ws" <=> ws_pc \in {"append", "bc_build"})
    /\ [][(TakesMessage \/ SendsStart \/ SendEnds)
             => (game_state_lock # "ws" /\ game_state_lock' # "ws")]_vars

\* sends are in flight to two clients, the lock released after the snapshot
C20_Witness ==
    /\ bc_pc = "gather"
    /\ snapshot # <<>>
    /\ \A c \in Clients : sends[c] = "pending"
    /\ game_state_lock = "free"
    /\ ws_pc = "recv"

=============================================================================
